---- MODULE Spec2Model ----
(***************************************************************************)
(* Model of api-derive balances/all: the lock resolver (calcLocked), the   *)
(* shared-view composer (calcShared), the vesting projection and assembly  *)
(* (calcBalances), the two query adapters (queryOld, queryCurrent) and the *)
(* reactive pipeline built by all().                                       *)
(*                                                                         *)
(* Balance is an unsigned integer of BalanceBits bits (u128 in the         *)
(* program, narrowed here); its largest value is the "isMax" sentinel.     *)
(***************************************************************************)
EXTENDS Integers, Sequences, FiniteSets, TLC

\* ------------------------------------------------------------------ bounds
BalanceBits == 3
MaxAmount == 2
MaxBlock == 2
MaxLocks == 2
MaxFree == 2
MaxTotal == 3
MaxPerBlock == 2
MaxStart == 1
MaxInstances == 3
MaxTicks == 5

\* ------------------------------------------------------------------- data
BalanceMax == 2 ^ BalanceBits - 1

VESTING_ID == "0x76657374696e6720"
OTHER_ID == "0x7374616b696e6720"
LockIds == {VESTING_ID, OTHER_ID}

Amounts == (0 .. MaxAmount) \cup {BalanceMax}

\* BalanceLockTo212 carries until; BalanceLock does not (hasUntil = FALSE).
BalanceLock ==
  {l \in [id : LockIds, amount : Amounts, hasUntil : BOOLEAN, until : 0 .. MaxBlock] :
     (~l.hasUntil) => l.until = 0}

SeqsUpTo(S, n) == UNION {[1 .. k -> S] : k \in 0 .. n}

\* A value that may be an array or undefined (allLocks[0] of an empty array).
ArrayOf(list) == [isArray |-> TRUE, list |-> list]
Undefined == [isArray |-> FALSE, list |-> <<>>]

\* VestingInfo | null; the null case keeps the fields of the record at zero.
NullVesting == [isSome |-> FALSE, locked |-> 0, perBlock |-> 0, startingBlock |-> 0]
SomeVesting(locked, perBlock, startingBlock) ==
  [isSome |-> TRUE, locked |-> locked, perBlock |-> perBlock, startingBlock |-> startingBlock]

\* registry.createType('VestingInfo') with no value: every field zero.
emptyVest == [locked |-> 0, perBlock |-> 0, startingBlock |-> 0]

\* A thrown exception, as the outcome of a call.
Threw(error) == [threw |-> TRUE, error |-> error]

\* registry.createType('Balance', x) accepts an unsigned value of the type's width.
FitsBalance(x) == x >= 0 /\ x <= BalanceMax

\* amount.isMax()
isMax(amount) == amount = BalanceMax

RECURSIVE SumAmounts(_)
SumAmounts(locks) ==
  IF locks = <<>> THEN 0 ELSE Head(locks).amount + SumAmounts(Tail(locks))

RECURSIVE bnMax(_)
bnMax(locks) ==
  IF Len(locks) = 1 THEN Head(locks).amount
  ELSE LET rest == bnMax(Tail(locks))
       IN IF Head(locks).amount > rest THEN Head(locks).amount ELSE rest

\* ------------------------------------------------------------- calcLocked
isActiveMutUntilGe(bestNumber, lock) ==
  IF lock.hasUntil THEN lock.until >= bestNumber ELSE TRUE

\* the filter predicate of line 44: !until || (bestNumber && until.gt(bestNumber));
\* until and bestNumber are objects whenever present, so both are truthy.
isActive(bestNumber, lock) ==
  IF lock.hasUntil THEN lock.until > bestNumber ELSE TRUE

lockedBalanceMutSum(notAll) ==
  IF Len(notAll) > 0 THEN SumAmounts(notAll) ELSE 0

\* lines 49-53: the maximum of the non-sentinel active locks, or the zero default.
lockedBalanceOf(notAll) ==
  IF Len(notAll) > 0 THEN bnMax(notAll) ELSE 0

calcLocked(bestNumber, locks) ==
  IF ~locks.isArray
  THEN [threw |-> FALSE, allLocked |-> FALSE, lockedBalance |-> 0,
        lockedBreakdown |-> <<>>, vestingLocked |-> 0]
  ELSE LET lockedBreakdown == SelectSeq(locks.list, LAMBDA l : isActive(bestNumber, l))
           allLocked == \E i \in 1 .. Len(lockedBreakdown) : isMax(lockedBreakdown[i].amount)
           vestingSum == SumAmounts(SelectSeq(lockedBreakdown, LAMBDA l : l.id = VESTING_ID))
           notAll == SelectSeq(lockedBreakdown, LAMBDA l : ~isMax(l.amount))
       IN IF ~FitsBalance(vestingSum)
          THEN Threw("InputTooLarge")
          ELSE [threw |-> FALSE, allLocked |-> allLocked,
                lockedBalance |-> lockedBalanceOf(notAll),
                lockedBreakdown |-> lockedBreakdown, vestingLocked |-> vestingSum]

\* ------------------------------------------------------------- calcShared
availableBalanceMutNoSentinel(allLocked, freeBalance, lockedBalance) ==
  IF freeBalance - lockedBalance > 0 THEN freeBalance - lockedBalance ELSE 0

\* line 64: allLocked ? 0 : bnMax(new BN(0), data.freeBalance.sub(lockedBalance))
availableBalanceOf(allLocked, freeBalance, lockedBalance) ==
  IF allLocked THEN 0
  ELSE IF freeBalance - lockedBalance > 0 THEN freeBalance - lockedBalance ELSE 0

\* data is [isObject, freeBalance]: data.additional[index] is undefined past the end.
calcShared(bestNumber, data, locks) ==
  LET locked == calcLocked(bestNumber, locks)
  IN IF locked.threw THEN locked
     ELSE IF ~data.isObject THEN Threw("TypeError")
     ELSE [threw |-> FALSE,
           freeBalance |-> data.freeBalance,
           availableBalance |->
             availableBalanceOf(locked.allLocked, data.freeBalance, locked.lockedBalance),
           lockedBalance |-> locked.lockedBalance,
           lockedBreakdown |-> locked.lockedBreakdown,
           vestingLocked |-> locked.vestingLocked]

\* ----------------------------------------------------------- calcBalances
Component(freeBalance) == [isObject |-> TRUE, freeBalance |-> freeBalance]
NoComponent == [isObject |-> FALSE, freeBalance |-> 0]

additionalAt(data, index) ==
  IF index <= Len(data.additional) THEN data.additional[index] ELSE NoComponent

\* line 77: vesting || emptyVest
scheduleOf(vesting) ==
  IF vesting.isSome
  THEN [locked |-> vesting.locked, perBlock |-> vesting.perBlock,
        startingBlock |-> vesting.startingBlock]
  ELSE emptyVest

\* line 78
isStartedOf(bestNumber, sched) == bestNumber > sched.startingBlock

\* line 79
vestedNowOf(bestNumber, sched) ==
  IF isStartedOf(bestNumber, sched)
  THEN sched.perBlock * (bestNumber - sched.startingBlock)
  ELSE 0

vestedBalanceMutNoClamp(bestNumber, sched) == vestedNowOf(bestNumber, sched)

\* line 80
vestedBalanceOf(bestNumber, sched) ==
  IF vestedNowOf(bestNumber, sched) > sched.locked
  THEN sched.locked
  ELSE vestedNowOf(bestNumber, sched)

\* line 91, the value passed to createType('BlockNumber', ...) when isVesting;
\* BN.div truncates.
vestingEndBlockOf(sched) == (sched.locked \div sched.perBlock) + sched.startingBlock

\* line 87: the views of the instances after the first, paired with
\* data.additional by the index counted after the filter.
additionalViews(bestNumber, data, allLocks) ==
  [i \in 1 .. (IF Len(allLocks) > 0 THEN Len(allLocks) - 1 ELSE 0) |->
     calcShared(bestNumber, additionalAt(data, i), ArrayOf(allLocks[i + 1]))]

calcBalances(data, bestNumber, vesting, allLocks) ==
  LET shared == calcShared(bestNumber, Component(data.freeBalance),
                           IF Len(allLocks) > 0 THEN ArrayOf(allLocks[1]) ELSE Undefined)
      sched == scheduleOf(vesting)
      vestedBalance == vestedBalanceOf(bestNumber, sched)
      additional == additionalViews(bestNumber, data, allLocks)
  IN IF shared.threw THEN shared
     ELSE LET isVesting == isStartedOf(bestNumber, sched) /\ shared.vestingLocked # 0
              claimable == IF isVesting
                           THEN shared.vestingLocked - (sched.locked - vestedBalance)
                           ELSE 0
          IN IF \E i \in 1 .. Len(additional) : additional[i].threw
             THEN additional[CHOOSE i \in 1 .. Len(additional) : additional[i].threw]
             ELSE IF ~FitsBalance(claimable) THEN Threw("NegativeUnsigned")
             ELSE IF isVesting /\ sched.perBlock = 0 THEN Threw("DivisionByZero")
             ELSE [threw |-> FALSE,
                   accountId |-> data.accountId,
                   freeBalance |-> shared.freeBalance,
                   availableBalance |-> shared.availableBalance,
                   lockedBalance |-> shared.lockedBalance,
                   lockedBreakdown |-> shared.lockedBreakdown,
                   vestingLocked |-> shared.vestingLocked,
                   additional |-> additional,
                   isVesting |-> isVesting,
                   vestedBalance |-> vestedBalance,
                   vestedClaimable |-> claimable,
                   vestingEndBlock |-> IF isVesting THEN vestingEndBlockOf(sched) ELSE 0,
                   vestingPerBlock |-> sched.perBlock,
                   vestingTotal |-> sched.locked]

\* ---------------------------------------------------------------- queryOld
\* The legacy Option<VestingSchedule> of the chain: offset, perBlock, startingBlock.
NoSchedule == [isSome |-> FALSE, offset |-> 0, perBlock |-> 0, startingBlock |-> 0]
SomeSchedule(offset, perBlock, startingBlock) ==
  [isSome |-> TRUE, offset |-> offset, perBlock |-> perBlock, startingBlock |-> startingBlock]

\* lines 103-113, applied to the reply <<locks, optVesting>> of the two-key query.
queryOld(reply) ==
  LET locks == reply[1]
      optVesting == reply[2]
      vestingNew == IF optVesting.isSome
                    THEN SomeVesting(optVesting.offset, optVesting.perBlock,
                                     optVesting.startingBlock)
                    ELSE NullVesting
  IN [vesting |-> vestingNew, allLocks |-> <<locks>>, multiCalls |-> 1]

\* ------------------------------------------------------------ queryCurrent
\* The module instances a runtime may declare, 'balances' first.
InstanceNames == <<"balances", "tokens", "assets", "foreign", "bridged">>
DefaultInstances == <<"balances">>

\* balanceInstances as all() passes it: a list, or undefined (the default applies).
Instances(list) == [isArray |-> TRUE, list |-> list]

\* line 122: derive[m]?.customLocks || query[m]?.locks
callOf(api, m) ==
  IF m \in api.customLocks THEN [defined |-> TRUE, fn |-> "customLocks", m |-> m]
  ELSE IF m \in api.locks THEN [defined |-> TRUE, fn |-> "locks", m |-> m]
  ELSE [defined |-> FALSE, fn |-> "undefined", m |-> m]

callsOf(api, balanceInstances) ==
  [i \in 1 .. Len(balanceInstances) |-> callOf(api, balanceInstances[i])]

\* line 124
lockEmptyOf(calls) == [i \in 1 .. Len(calls) |-> ~calls[i].defined]

\* line 125
queriesOf(calls) == SelectSeq(calls, LAMBDA c : c.defined)

VestingKey == [defined |-> TRUE, fn |-> "vesting", m |-> "vesting"]

\* The keys of the queryMulti lines 128-135 issue; none when of() answers.
multiKeys(api, instances) ==
  LET queries == queriesOf(callsOf(api, IF instances.isArray THEN instances.list
                                        ELSE DefaultInstances))
  IN IF api.hasVesting THEN <<VestingKey>> \o queries ELSE queries

emptyVec == <<>>

lockAtMutPostIncrement(locks, offset) ==
  IF offset + 1 >= 1 /\ offset + 1 <= Len(locks) THEN locks[offset + 1] ELSE emptyVec

\* locks[++offset] of line 142: offset counts from -1 and indexes from 0;
\* past the end of the reply the element is undefined.
lockAt(locks, offset) ==
  IF offset + 2 >= 1 /\ offset + 2 <= Len(locks) THEN locks[offset + 2] ELSE emptyVec

\* line 142: lockEmpty.map((e) => e ? createType('Vec<BalanceLock>') : locks[++offset])
RECURSIVE mapLockEmpty(_, _, _)
mapLockEmpty(lockEmpty, locks, offset) ==
  IF lockEmpty = <<>> THEN <<>>
  ELSE IF Head(lockEmpty)
       THEN <<emptyVec>> \o mapLockEmpty(Tail(lockEmpty), locks, offset)
       ELSE <<lockAt(locks, offset)>> \o mapLockEmpty(Tail(lockEmpty), locks, offset + 1)

\* lines 120-146, applied to the reply of the batched query (<<>> when none is issued).
queryCurrent(api, instances, reply) ==
  LET balanceInstances == IF instances.isArray THEN instances.list ELSE DefaultInstances
      calls == callsOf(api, balanceInstances)
      lockEmpty == lockEmptyOf(calls)
      queries == queriesOf(calls)
      tuple == IF api.hasVesting THEN reply
               ELSE IF Len(queries) > 0 THEN <<NullVesting>> \o reply
               ELSE <<NullVesting>>
      opt == Head(tuple)
      locks == Tail(tuple)
  IN [vesting |-> opt,
      allLocks |-> mapLockEmpty(lockEmpty, locks, -1),
      multiCalls |-> IF api.hasVesting \/ Len(queries) > 0 THEN 1 ELSE 0]

\* ------------------------------------------------------------------ state
VARIABLES
  pc,          \* position of the single call under check: "input" | "returned"
  args,        \* the arguments of that call
  ret,         \* its outcome
  subscribers, \* the active subscribers of all(instanceId, api)(address)
  accountSubs, \* live subscriptions to api.derive.balances.account(address)
  inner,       \* the inner observable switchMap currently holds
  emitted,     \* the notifications the latest step sent downstream
  received,    \* per subscriber, what it received since it subscribed
  last,        \* the latest step
  ticks,       \* upstream emissions so far
  seen         \* the latest value each upstream feed emitted

vars == <<pc, args, ret, subscribers, accountSubs, inner, emitted, received, last, ticks, seen>>

Subs == {1, 2}

NoCall == [fn |-> "none"]

\* An account the feed has not reported, and a query result not yet received.
NoAccount == [accountId |-> "", freeBalance |-> 0, additional |-> <<>>]
NoQuery == [vesting |-> NullVesting, allLocks |-> <<>>, multiCalls |-> 0]

\* switchMap holds no inner observable.
NoInner ==
  [kind |-> "none", account |-> NoAccount, hasBest |-> FALSE, best |-> 0,
   hasQuery |-> FALSE, query |-> NoQuery, bestSubs |-> 0, querySubs |-> 0]

NoneSeen ==
  [account |-> NoAccount, hasBest |-> FALSE, best |-> 0, hasQuery |-> FALSE,
   query |-> NoQuery]

Step(op, sub, account, warm, cancelled, started) ==
  [op |-> op, sub |-> sub, account |-> account, warm |-> warm,
   cancelled |-> cancelled, started |-> started]

PipeIdle ==
  /\ subscribers = {}
  /\ accountSubs = 0
  /\ inner = NoInner
  /\ emitted = <<>>
  /\ received = [s \in Subs |-> <<>>]
  /\ last = Step("init", 0, NoAccount, FALSE, 0, 0)
  /\ ticks = 0
  /\ seen = NoneSeen

\* ------------------------------------------------- calcLocked, on its own
LockLists(n) == SeqsUpTo(BalanceLock, n)

InitLocked ==
  /\ pc = "input"
  /\ \E bestNumber \in 0 .. MaxBlock :
       \E locks \in {Undefined} \cup {ArrayOf(l) : l \in LockLists(MaxLocks)} :
         args = [fn |-> "calcLocked", bestNumber |-> bestNumber, locks |-> locks]
  /\ ret = NoCall
  /\ PipeIdle

CallCalcLocked ==
  /\ pc = "input"
  /\ args.fn = "calcLocked"
  /\ pc' = "returned"
  /\ ret' = calcLocked(args.bestNumber, args.locks)
  /\ UNCHANGED <<args, subscribers, accountSubs, inner, emitted, received, last, ticks, seen>>

SpecLocked == InitLocked /\ [][CallCalcLocked]_vars

\* ----------------------------------------------- calcBalances, on its own
VestingInputs ==
  {NullVesting} \cup
  {SomeVesting(t, p, s) : t \in 0 .. MaxTotal, p \in 0 .. MaxPerBlock, s \in 0 .. MaxStart}

\* One instance with up to MaxLocks locks, or two instances with up to one lock
\* each; none for an account that does not exist.
AllLocksInputs ==
  {<<>>} \cup {<<l>> : l \in LockLists(MaxLocks)}
         \cup {<<l, m>> : l \in LockLists(1), m \in LockLists(1)}

\* derive.balances.account reports one component per instance after the first.
AccountInputs(allLocks, frees) ==
  {[accountId |-> IF allLocks = <<>> THEN "" ELSE "alice",
    freeBalance |-> f, additional |-> a] :
     f \in frees,
     a \in [1 .. (IF Len(allLocks) > 0 THEN Len(allLocks) - 1 ELSE 0) ->
              {Component(g) : g \in frees}]}

\* Every lock list, under no schedule or one schedule.
InitViews ==
  /\ pc = "input"
  /\ \E bestNumber \in 0 .. MaxBlock, vesting \in {NullVesting, SomeVesting(MaxTotal, 1, 0)},
        allLocks \in AllLocksInputs :
       \E data \in AccountInputs(allLocks, 0 .. MaxFree) :
         args = [fn |-> "calcBalances", data |-> data, bestNumber |-> bestNumber,
                 vesting |-> vesting, allLocks |-> allLocks]
  /\ ret = NoCall
  /\ PipeIdle

\* Locks without until, or with one that runs out at MaxBlock.
VestingLockInputs == {l \in BalanceLock : l.hasUntil => l.until = MaxBlock}

\* Every schedule, over the lock lists of one instance.
InitCalc ==
  /\ pc = "input"
  /\ \E bestNumber \in 0 .. MaxBlock, vesting \in VestingInputs,
        locks \in SeqsUpTo(VestingLockInputs, MaxLocks) :
       \E data \in AccountInputs(<<locks>>, {0, MaxFree}) :
         args = [fn |-> "calcBalances", data |-> data, bestNumber |-> bestNumber,
                 vesting |-> vesting, allLocks |-> <<locks>>]
  /\ ret = NoCall
  /\ PipeIdle

CallCalcBalances ==
  /\ pc = "input"
  /\ args.fn = "calcBalances"
  /\ pc' = "returned"
  /\ ret' = calcBalances(args.data, args.bestNumber, args.vesting, args.allLocks)
  /\ UNCHANGED <<args, subscribers, accountSubs, inner, emitted, received, last, ticks, seen>>

SpecCalc == InitCalc /\ [][CallCalcBalances]_vars

SpecViews == InitViews /\ [][CallCalcBalances]_vars

\* ------------------------------------- queryOld, queryCurrent, on their own
\* What the chain may answer to one lock key.
ReplyLists ==
  {<<>>} \cup
  {<<[id |-> OTHER_ID, amount |-> a, hasUntil |-> FALSE, until |-> 0]>> : a \in 1 .. MaxAmount}

\* What the chain may answer to the vesting key.
VestingReplies == {NullVesting, SomeVesting(MaxTotal, 1, 0)}

ScheduleReplies == {NoSchedule, SomeSchedule(MaxTotal, 1, 0)}

\* The replies to a batched query of keys `keys`, one value per key, the lock
\* lists drawn from `lists`.
RepliesOver(keys, lists) ==
  IF Len(keys) > 0 /\ keys[1].fn = "vesting"
  THEN {<<v>> \o ls : v \in VestingReplies, ls \in [1 .. Len(keys) - 1 -> lists]}
  ELSE [1 .. Len(keys) -> lists]

RepliesFor(keys) == RepliesOver(keys, ReplyLists)

InstanceInputs ==
  {Undefined} \cup {Instances(SubSeq(InstanceNames, 1, n)) : n \in 0 .. MaxInstances}

ApiInputs(instances) ==
  LET names == {instances.list[i] : i \in 1 .. Len(instances.list)} \cup {"balances"}
  IN [hasVesting : BOOLEAN, customLocks : SUBSET names, locks : SUBSET names]

InitQuery ==
  /\ pc = "input"
  /\ \/ \E instances \in InstanceInputs :
          \E api \in ApiInputs(instances) :
            \E reply \in RepliesFor(multiKeys(api, instances)) :
              args = [fn |-> "queryCurrent", api |-> api, instances |-> instances,
                      reply |-> reply]
     \/ \E locks \in ReplyLists, optVesting \in ScheduleReplies :
          args = [fn |-> "queryOld", reply |-> <<locks, optVesting>>]
  /\ ret = NoCall
  /\ PipeIdle

CallQueryCurrent ==
  /\ pc = "input"
  /\ args.fn = "queryCurrent"
  /\ pc' = "returned"
  /\ ret' = queryCurrent(args.api, args.instances, args.reply)
  /\ UNCHANGED <<args, subscribers, accountSubs, inner, emitted, received, last, ticks, seen>>

CallQueryOld ==
  /\ pc = "input"
  /\ args.fn = "queryOld"
  /\ pc' = "returned"
  /\ ret' = queryOld(args.reply)
  /\ UNCHANGED <<args, subscribers, accountSubs, inner, emitted, received, last, ticks, seen>>

NextQuery == CallQueryCurrent \/ CallQueryOld

SpecQuery == InitQuery /\ [][NextQuery]_vars

\* C6: the lock-list array queryCurrent returns has one entry per configured
\* instance; the entry of an instance whose lock query did not resolve is the
\* empty list, and the entry of the k-th resolved instance is the k-th lock
\* result of the batched reply, in instance order.
C6_FullLengthLockLists ==
  (pc = "returned" /\ args.fn = "queryCurrent") =>
    LET list == IF args.instances.isArray THEN args.instances.list ELSE <<"balances">>
        resolved == {i \in 1 .. Len(list) :
                       list[i] \in args.api.customLocks \cup args.api.locks}
        lockReplies == IF args.api.hasVesting THEN Tail(args.reply) ELSE args.reply
    IN /\ Len(ret.allLocks) = Len(list)
       /\ Len(lockReplies) = Cardinality(resolved)
       /\ \A i \in 1 .. Len(list) :
            ret.allLocks[i] =
              (IF i \in resolved
               THEN lockReplies[Cardinality({k \in resolved : k <= i})]
               ELSE <<>>)

C6_Witness ==
  /\ pc = "returned" /\ args.fn = "queryCurrent"
  /\ args.instances.isArray /\ Len(args.instances.list) = 3
  /\ args.api.customLocks = {}
  /\ args.api.locks = {args.instances.list[2]}
  /\ Len(ret.allLocks) = 3
  /\ ret.allLocks[1] = <<>>
  /\ ret.allLocks[2] # <<>>
  /\ ret.allLocks[3] = <<>>

\* ------------------------------------------- properties of the pure functions
LockedReturned == pc = "returned" /\ args.fn = "calcLocked" /\ ~ret.threw
CalcReturned == pc = "returned" /\ args.fn = "calcBalances"

\* The positions of `list` whose until is unset or strictly above `height`.
StillActive(list, height) ==
  {i \in 1 .. Len(list) : (~list[i].hasUntil) \/ list[i].until > height}

\* Whether `out` is `list` restricted to the positions `keep`, in order.
IsRestriction(out, list, keep) ==
  /\ Len(out) = Cardinality(keep)
  /\ \A i \in keep : out[Cardinality({k \in keep : k <= i})] = list[i]

MaxOrZero(S) == IF S = {} THEN 0 ELSE CHOOSE m \in S : \A x \in S : x <= m

CeilDiv(a, b) == (a + b - 1) \div b

\* C7: lockedBreakdown is exactly the input entries whose until is unset or
\* strictly greater than the current height, in input order; an entry whose
\* until is at most the height (until = 0 included) is excluded.
C7_BreakdownIsActiveLocks ==
  LockedReturned =>
    IF args.locks.isArray
    THEN IsRestriction(ret.lockedBreakdown, args.locks.list,
                       StillActive(args.locks.list, args.bestNumber))
    ELSE ret.lockedBreakdown = <<>>

C7_Witness ==
  /\ LockedReturned
  /\ args.locks.isArray
  /\ Len(args.locks.list) = 2
  /\ args.locks.list[1].hasUntil /\ args.locks.list[1].until = 0
  /\ args.locks.list[2].hasUntil /\ args.locks.list[2].until > args.bestNumber
  /\ ret.lockedBreakdown = <<args.locks.list[2]>>

\* C9: lockedBalance is the largest single amount among the active locks
\* whose amount is not the sentinel maximum, never their sum, and 0 when
\* there is none (input undefined, empty, or only expired or sentinel locks).
C9_LockedBalanceIsMax ==
  LockedReturned =>
    ret.lockedBalance =
      MaxOrZero({args.locks.list[i].amount :
                   i \in {k \in StillActive(args.locks.list, args.bestNumber) :
                            args.locks.list[k].amount # BalanceMax}})

C9_Witness ==
  /\ LockedReturned
  /\ args.locks.isArray
  /\ Len(args.locks.list) = 2
  /\ StillActive(args.locks.list, args.bestNumber) = {1, 2}
  /\ args.locks.list[1].amount = 1
  /\ args.locks.list[2].amount = 2
  /\ ret.lockedBalance = 2

\* Whether an active lock of `list` carries the sentinel maximum amount.
Frozen(list, height) ==
  \E i \in StillActive(list, height) : list[i].amount = BalanceMax

ViewOk(view, freeBalance, list, height) ==
  /\ view.freeBalance = freeBalance
  /\ view.availableBalance =
       (IF Frozen(list, height) THEN 0
        ELSE IF freeBalance - view.lockedBalance > 0
             THEN freeBalance - view.lockedBalance ELSE 0)
  /\ view.availableBalance >= 0
  /\ view.availableBalance <= freeBalance

\* C8: in every derived result, for the primary view and every view in
\* additional, availableBalance is 0 when an active lock of that instance
\* has the sentinel amount, and max(0, freeBalance - lockedBalance) of that
\* instance otherwise; it is never negative and never above freeBalance.
C8_AvailableBalance ==
  (CalcReturned /\ ~ret.threw) =>
    /\ IF Len(args.allLocks) > 0
       THEN ViewOk(ret, args.data.freeBalance, args.allLocks[1], args.bestNumber)
       ELSE ViewOk(ret, args.data.freeBalance, <<>>, args.bestNumber)
    /\ Len(ret.additional) = (IF Len(args.allLocks) > 0 THEN Len(args.allLocks) - 1 ELSE 0)
    /\ \A i \in 1 .. Len(ret.additional) :
         ViewOk(ret.additional[i], args.data.additional[i].freeBalance,
                args.allLocks[i + 1], args.bestNumber)

C8_Witness ==
  /\ CalcReturned /\ ~ret.threw
  /\ Len(ret.additional) = 1
  /\ Frozen(args.allLocks[2], args.bestNumber)
  /\ ret.additional[1].freeBalance > 0
  /\ ret.additional[1].availableBalance = 0
  /\ ret.lockedBalance > 0
  /\ ret.availableBalance = ret.freeBalance - ret.lockedBalance
  /\ ret.availableBalance > 0

\* C1: whenever isVesting holds in a result (perBlock > 0), vestingEndBlock is
\* startingBlock + ceil(vestingTotal / perBlock), also when vestingTotal is
\* not a multiple of perBlock.
C1_EndBlockIsCeil ==
  (CalcReturned /\ ~ret.threw /\ ret.isVesting /\ args.vesting.isSome
     /\ args.vesting.perBlock > 0) =>
    ret.vestingEndBlock =
      args.vesting.startingBlock + CeilDiv(args.vesting.locked, args.vesting.perBlock)

\* C2: with no vesting schedule, for every height and lock list the result
\* has isVesting false and every vesting amount zero, and the division by
\* perBlock is never evaluated.
C2_NoScheduleAllZero ==
  (CalcReturned /\ ~args.vesting.isSome) =>
    /\ ret.threw => ret.error # "DivisionByZero"
    /\ ~ret.threw =>
         /\ ~ret.isVesting
         /\ ret.vestedBalance = 0
         /\ ret.vestedClaimable = 0
         /\ ret.vestingEndBlock = 0
         /\ ret.vestingPerBlock = 0
         /\ ret.vestingTotal = 0

\* The amount of the schedule not yet unlocked at `height`.
Unvested(vesting, height) ==
  IF height > vesting.startingBlock
       /\ vesting.perBlock * (height - vesting.startingBlock) < vesting.locked
  THEN vesting.locked - vesting.perBlock * (height - vesting.startingBlock)
  ELSE IF height > vesting.startingBlock THEN 0 ELSE vesting.locked

\* The sum of the active locks of the primary instance tagged with the vesting id.
VestingLockedIn(allLocks, height) ==
  IF Len(allLocks) = 0 THEN 0
  ELSE SumAmounts(SelectSeq(allLocks[1],
         LAMBDA l : l.id = VESTING_ID /\ ((~l.hasUntil) \/ l.until > height)))

\* C10 as stated: for a schedule with perBlock > 0, every height and every
\* lock list, vestedBalance <= vestingTotal and
\* 0 <= vestedClaimable <= vestingLocked (the subtraction never goes below 0).
C10_ClaimableNeverNegative ==
  (CalcReturned /\ args.vesting.isSome /\ args.vesting.perBlock > 0) =>
    /\ ret.threw => ret.error # "NegativeUnsigned"
    /\ ~ret.threw =>
         /\ ret.vestedBalance <= ret.vestingTotal
         /\ 0 <= ret.vestedClaimable
         /\ ret.vestedClaimable <= ret.vestingLocked

\* C10 amended: vestedBalance <= vestingTotal in every result; when the
\* account is not vesting, or its vestingLocked is at least the unvested
\* remainder of the schedule, 0 <= vestedClaimable <= vestingLocked; when it
\* is vesting with vestingLocked below the remainder, the subtraction is
\* negative and calcBalances yields no result.
C10_ClaimableWithinLocked ==
  (CalcReturned /\ args.vesting.isSome /\ args.vesting.perBlock > 0
     /\ (ret.threw => ret.error = "NegativeUnsigned")) =>
    LET vl == VestingLockedIn(args.allLocks, args.bestNumber)
        short == /\ args.bestNumber > args.vesting.startingBlock
                 /\ vl # 0
                 /\ vl < Unvested(args.vesting, args.bestNumber)
    IN IF short THEN ret.threw
       ELSE /\ ~ret.threw
            /\ ret.vestedBalance <= ret.vestingTotal
            /\ 0 <= ret.vestedClaimable
            /\ ret.vestedClaimable <= ret.vestingLocked

C10_Witness ==
  /\ CalcReturned /\ ~ret.threw
  /\ args.vesting.isSome /\ args.vesting.perBlock > 0
  /\ ret.isVesting
  /\ args.vesting.perBlock * (args.bestNumber - args.vesting.startingBlock) > ret.vestingTotal
  /\ ret.vestedBalance = ret.vestingTotal
  /\ ret.vestedClaimable = ret.vestingLocked
  /\ ret.vestedClaimable > 0

\* ------------------------------------------------------- the pipeline, all()
\* line 173: isFunction(query.system?.account) || isFunction(query.balances?.account)
isCurrent(api) == api.systemAccount \/ api.balancesAccount

LocksKey == [defined |-> TRUE, fn |-> "locks", m |-> "balances"]

\* The keys of the batched query the adapter chosen at lines 173-175 issues.
queryKeys(api, instances) ==
  IF isCurrent(api) THEN multiKeys(api, instances) ELSE <<LocksKey, VestingKey>>

\* lines 173-175, applied to the reply of that query.
queryResult(api, instances, reply) ==
  IF isCurrent(api) THEN queryCurrent(api, instances, reply) ELSE queryOld(reply)

\* memo (../util), from its contract: subscribers of one (instanceId, address)
\* key attach to the computation in flight; only the first starts one.
memoStarts(active) == IF active = {} THEN 1 ELSE 0

pipelinesStartedByMutNoMemo(active) == 1

\* line 166: all() returns the memoized function, so a subscription starts the
\* inner pipeline as memo says.
pipelinesStartedBy(active) == memoStarts(active)

projectMutNoEmptyCheck(api, instances, account, pipelines) ==
  [kind |-> "combine", account |-> account, hasBest |-> FALSE, best |-> 0,
   hasQuery |-> FALSE, query |-> NoQuery, bestSubs |-> pipelines, querySubs |-> pipelines]

\* lines 168-178, the projection switchMap applies to an account: combineLatest
\* of the account, the best number and the adapter's query for an account that
\* exists, of([account, 0, [null, []]]) for one that does not.  `pipelines`
\* counts the running copies of the inner pipeline.
project(api, instances, account, pipelines) ==
  IF account.accountId # ""
  THEN IF queryKeys(api, instances) = <<>>
       THEN [kind |-> "combine", account |-> account, hasBest |-> FALSE, best |-> 0,
             hasQuery |-> TRUE, query |-> queryResult(api, instances, <<>>),
             bestSubs |-> pipelines, querySubs |-> 0]
       ELSE [kind |-> "combine", account |-> account, hasBest |-> FALSE, best |-> 0,
             hasQuery |-> FALSE, query |-> NoQuery,
             bestSubs |-> pipelines, querySubs |-> pipelines]
  ELSE [kind |-> "of", account |-> account, hasBest |-> TRUE, best |-> 0,
        hasQuery |-> TRUE, query |-> NoQuery, bestSubs |-> 0, querySubs |-> 0]

combineEmitsMutEager(in) == TRUE

\* combineLatest (line 170) emits once each of its sources has emitted; of()
\* (line 177) emits at once.
combineEmits(in) == in.hasBest /\ in.hasQuery

\* line 180: map((result) => calcBalances(api, result))
resultOf(in) == calcBalances(in.account, in.best, in.query.vesting, in.query.allLocks)

notificationsOf(in) == IF combineEmits(in) THEN <<resultOf(in)>> ELSE <<>>

\* What the account feed may report: an account that does not exist (empty
\* accountId) or one that does.
AccountValues ==
  {[accountId |-> id, freeBalance |-> f, additional |-> <<>>] :
     id \in {"", "alice"}, f \in {0, MaxFree}}

\* What the chain may answer to the lock key of the subscribed account.
PipeLists ==
  {<<>>, <<[id |-> VESTING_ID, amount |-> MaxAmount, hasUntil |-> FALSE, until |-> 0]>>}

PipeReplies(api, instances) ==
  IF isCurrent(api)
  THEN RepliesOver(multiKeys(api, instances), PipeLists)
  ELSE {<<l, v>> : l \in PipeLists, v \in ScheduleReplies}

\* The runtimes under which all(instanceId, api) is set up: a current one with
\* the vesting module and the default instance list, and a legacy one.
PipelineInputs ==
  {[fn |-> "all",
    api |-> [systemAccount |-> TRUE, balancesAccount |-> FALSE, hasVesting |-> TRUE,
             customLocks |-> {}, locks |-> {"balances"}],
    instances |-> Undefined],
   [fn |-> "all",
    api |-> [systemAccount |-> FALSE, balancesAccount |-> FALSE, hasVesting |-> FALSE,
             customLocks |-> {}, locks |-> {"balances"}],
    instances |-> Undefined]}

Init ==
  /\ pc = "running"
  /\ args \in PipelineInputs
  /\ ret = NoCall
  /\ PipeIdle

\* The notifications `notes` go to every subscriber; a failure ends the
\* subscription and tears the pipeline down.
Downstream(newInner, notes) ==
  /\ emitted' = notes
  /\ received' = [s \in Subs |-> IF s \in subscribers THEN received[s] \o notes
                                 ELSE received[s]]
  /\ IF notes # <<>> /\ notes[1].threw
     THEN subscribers' = {} /\ accountSubs' = 0 /\ inner' = NoInner
     ELSE subscribers' = subscribers /\ accountSubs' = accountSubs /\ inner' = newInner

Subscribe ==
  \E s \in Subs \ subscribers :
    /\ subscribers' = subscribers \cup {s}
    /\ accountSubs' = accountSubs + pipelinesStartedBy(subscribers)
    /\ received' = [received EXCEPT ![s] = <<>>]
    /\ emitted' = <<>>
    /\ seen' = IF subscribers = {} THEN NoneSeen ELSE seen
    /\ last' = Step("subscribe", s, NoAccount, FALSE, 0, pipelinesStartedBy(subscribers))
    /\ UNCHANGED <<pc, args, ret, inner, ticks>>

Unsubscribe ==
  \E s \in subscribers :
    /\ subscribers' = subscribers \ {s}
    /\ received' = [received EXCEPT ![s] = <<>>]
    /\ emitted' = <<>>
    /\ IF subscribers = {s}
       THEN accountSubs' = 0 /\ inner' = NoInner /\ seen' = NoneSeen
       ELSE UNCHANGED <<accountSubs, inner, seen>>
    /\ last' = Step("unsubscribe", s, NoAccount, FALSE,
                    IF subscribers = {s} THEN accountSubs + inner.bestSubs + inner.querySubs
                    ELSE 0, 0)
    /\ UNCHANGED <<pc, args, ret, ticks>>

AccountEmit ==
  /\ subscribers # {}
  /\ accountSubs > 0
  /\ ticks < MaxTicks
  /\ \E account \in AccountValues :
       LET in == project(args.api, args.instances, account, accountSubs)
       IN /\ Downstream(in, notificationsOf(in))
          /\ seen' = [NoneSeen EXCEPT !.account = account]
          /\ last' = Step("account", 0, account,
                          inner.kind = "combine" /\ inner.hasBest /\ inner.hasQuery,
                          inner.bestSubs + inner.querySubs,
                          in.bestSubs + in.querySubs)
  /\ ticks' = ticks + 1
  /\ UNCHANGED <<pc, args, ret>>

BestEmit ==
  /\ subscribers # {}
  /\ inner.kind = "combine"
  /\ inner.bestSubs > 0
  /\ ticks < MaxTicks
  /\ \E bestNumber \in 0 .. MaxBlock :
       LET in == [inner EXCEPT !.hasBest = TRUE, !.best = bestNumber]
       IN /\ Downstream(in, notificationsOf(in))
          /\ seen' = [seen EXCEPT !.hasBest = TRUE, !.best = bestNumber]
          /\ last' = Step("best", 0, inner.account, inner.hasBest /\ inner.hasQuery, 0, 0)
  /\ ticks' = ticks + 1
  /\ UNCHANGED <<pc, args, ret>>

QueryEmit ==
  /\ subscribers # {}
  /\ inner.kind = "combine"
  /\ inner.querySubs > 0
  /\ ticks < MaxTicks
  /\ \E reply \in PipeReplies(args.api, args.instances) :
       LET value == queryResult(args.api, args.instances, reply)
           in == [inner EXCEPT !.hasQuery = TRUE, !.query = value]
       IN /\ Downstream(in, notificationsOf(in))
          /\ seen' = [seen EXCEPT !.hasQuery = TRUE, !.query = value]
          /\ last' = Step("query", 0, inner.account, inner.hasBest /\ inner.hasQuery, 0, 0)
  /\ ticks' = ticks + 1
  /\ UNCHANGED <<pc, args, ret>>

Next == Subscribe \/ Unsubscribe \/ AccountEmit \/ BestEmit \/ QueryEmit

Spec == Init /\ [][Next]_vars

\* ---------------------------------------------- properties of the pipeline
FeedStep == last.op \in {"account", "best", "query"}

\* The result computed from the latest value of each of the three feeds.
FromLatest == calcBalances(seen.account, seen.best, seen.query.vesting, seen.query.allLocks)

IsSuffix(a, b) == Len(a) <= Len(b) /\ a = SubSeq(b, Len(b) - Len(a) + 1, Len(b))

C4_SubscribersShareOnePipeline ==
  Cardinality(subscribers) = 2 =>
    /\ accountSubs = 1
    /\ inner.bestSubs <= 1
    /\ inner.querySubs <= 1
    /\ last.op = "subscribe" => last.started = 0
    /\ \A s, t \in subscribers :
         IsSuffix(received[s], received[t]) \/ IsSuffix(received[t], received[s])

C4_Witness ==
  /\ subscribers = {1, 2}
  /\ accountSubs = 1
  /\ inner.querySubs = 1
  /\ Len(received[1]) = 2
  /\ Len(received[2]) = 1
  /\ received[2][1] = received[1][2]
  /\ received[1][1] # received[1][2]

\* C5: an account-feed emission with an empty accountId yields a result at
\* once, starting neither a best-number subscription nor a lock/vesting query
\* and leaving none running (those of an earlier account are cancelled); the
\* result has availableBalance = max(0, freeBalance), no locks, no additional
\* views, isVesting false and every vesting amount zero.
C5_UnknownAccountShortCircuits ==
  (last.op = "account" /\ last.account.accountId = "") =>
    /\ last.started = 0
    /\ inner.bestSubs = 0
    /\ inner.querySubs = 0
    /\ Len(emitted) = 1
    /\ ~emitted[1].threw
    /\ emitted[1].availableBalance =
         (IF last.account.freeBalance > 0 THEN last.account.freeBalance ELSE 0)
    /\ emitted[1].lockedBalance = 0
    /\ emitted[1].vestingLocked = 0
    /\ emitted[1].lockedBreakdown = <<>>
    /\ emitted[1].additional = <<>>
    /\ ~emitted[1].isVesting
    /\ emitted[1].vestedBalance = 0
    /\ emitted[1].vestedClaimable = 0
    /\ emitted[1].vestingEndBlock = 0
    /\ emitted[1].vestingPerBlock = 0
    /\ emitted[1].vestingTotal = 0

C5_Witness ==
  /\ last.op = "account"
  /\ last.account.accountId = ""
  /\ last.account.freeBalance = MaxFree
  /\ last.warm
  /\ last.cancelled = 2
  /\ inner.kind = "of"
  /\ Len(emitted) = 1
  /\ emitted[1].availableBalance = MaxFree

====
